---------------------------- MODULE Spec2Model ----------------------------
(***************************************************************************)
(* A model of starfinder: the Tycho-2 catalog reader of src/parsing.cpp    *)
(* and the render tool of src/render.cpp (reader with diagnostics, filter, *)
(* rasterizer).                                                            *)
(*                                                                         *)
(* Text is a sequence of one-character strings.  A double is a record      *)
(* [k, v]: k = "fin" with v the value in units of 1/Scale, k = "inf" with  *)
(* v the sign, or k = "nan".  Arithmetic on finite values is exact; the    *)
(* sample inputs are chosen so that every result is a whole number of      *)
(* units, so binary rounding is not modelled.                              *)
(***************************************************************************)
EXTENDS Integers, Sequences, FiniteSets, TLC

VARIABLES
    record, errmes, op, ret,                      \* a caller of the parse functions
    path_ok, file, pc, rows, records, writes,     \* read_stars
    stars, i, skipped_rows, cerr, thrown,
    all_stars, window, tested, local, filtered_stars, finish, fpc,   \* filter_stars
    rstars, geom, k, img, drawn, rpc               \* render_stars

parseVars  == <<record, errmes, op, ret>>
readVars   == <<path_ok, file, pc, rows, records, writes, stars, i, skipped_rows, cerr, thrown>>
filterVars == <<all_stars, window, tested, local, filtered_stars, finish, fpc>>
renderVars == <<rstars, geom, k, img, drawn, rpc>>
vars       == <<parseVars, readVars, filterVars, renderVars>>

-----------------------------------------------------------------------------
(* Doubles *)

ScaleDigits == 3
Scale == 10 ^ ScaleDigits

Fin(v) == [k |-> "fin", v |-> v]
NaN    == [k |-> "nan", v |-> 0]
Inf(s) == [k |-> "inf", v |-> s]

IsFinite(d) == d.k = "fin"

Neg(d) == IF d.k = "nan" THEN NaN ELSE [k |-> d.k, v |-> 0 - d.v]

\* a + b as IEEE-754 does it for infinities and NaN
FAdd(a, b) ==
    IF a.k = "nan" \/ b.k = "nan" THEN NaN
    ELSE IF a.k = "inf" /\ b.k = "inf" THEN (IF a.v = b.v THEN a ELSE NaN)
    ELSE IF a.k = "inf" THEN a
    ELSE IF b.k = "inf" THEN b
    ELSE Fin(a.v + b.v)

FSub(a, b) == FAdd(a, Neg(b))

\* 0.090 * d: nine hundredths
NINE == 9
HUNDREDTHS == 100
FMulBlend(d) ==
    IF d.k = "nan" THEN NaN
    ELSE IF d.k = "inf" THEN d
    ELSE Fin((NINE * d.v) \div HUNDREDTHS)


-----------------------------------------------------------------------------
(* Text: std::string as a sequence of characters *)

Digits == {"0", "1", "2", "3", "4", "5", "6", "7", "8", "9"}
DigitVal == ("0" :> 0) @@ ("1" :> 1) @@ ("2" :> 2) @@ ("3" :> 3) @@ ("4" :> 4) @@
            ("5" :> 5) @@ ("6" :> 6) @@ ("7" :> 7) @@ ("8" :> 8) @@ ("9" :> 9)
Spaces == {" ", "\t"}

Lower(c) ==
    CASE c = "I" -> "i" [] c = "N" -> "n" [] c = "F" -> "f" [] c = "A" -> "a"
      [] OTHER -> c

RECURSIVE SkipSpace(_, _)
SkipSpace(s, p) ==
    IF p <= Len(s) /\ s[p] \in Spaces THEN SkipSpace(s, p + 1) ELSE p

RECURSIVE DigitsEnd(_, _)
DigitsEnd(s, p) ==
    IF p <= Len(s) /\ s[p] \in Digits THEN DigitsEnd(s, p + 1) ELSE p

\* the number written by the digits s[p .. q-1]
RECURSIVE DigitsValue(_, _, _)
DigitsValue(s, p, q) ==
    IF q <= p THEN 0 ELSE 10 * DigitsValue(s, p, q - 1) + DigitVal[s[q - 1]]

RECURSIVE NumDigits(_)
NumDigits(n) == IF n < 10 THEN 1 ELSE 1 + NumDigits(n \div 10)

\* the largest and smallest decimal exponents of a normal double
DBL_MAX_10_EXP == 308
DBL_MIN_10_EXP == -307

(***************************************************************************)
(* std::stod: strtod on the text, then the wrapper's two exceptions.       *)
(* Leading white space is skipped, an optional sign is read, then "inf" or *)
(* "nan" (any case) or a decimal number with optional fraction and         *)
(* exponent; what follows the number is ignored.  No number at all throws  *)
(* std::invalid_argument; a value outside the range of double (ERANGE)     *)
(* throws std::out_of_range.  Hexadecimal floats are not modelled.         *)
(* The scan is written as one operator per stage, each taking the          *)
(* positions found so far.                                                 *)
(***************************************************************************)
Converted(d) == [exc |-> "none", val |-> d]
Threw(e)     == [exc |-> e, val |-> NaN]

\* mant * 10^shift units, truncated when the text has more digits than the units
Units(mant, shift) ==
    IF shift >= 0 THEN mant * (10 ^ shift) ELSE mant \div (10 ^ (0 - shift))

\* the value sgn * mant * 10^(ex - nFrac): mant > 0 lies in the decade
\* 10^(NumDigits(mant) - nFrac + ex - 1)
StodValue(sgn, mant, nFrac, ex) ==
    IF mant = 0 THEN Converted(Fin(0))
    ELSE IF \/ NumDigits(mant) - nFrac + ex - 1 > DBL_MAX_10_EXP
            \/ NumDigits(mant) - nFrac + ex - 1 < DBL_MIN_10_EXP
         THEN Threw("out_of_range")
    ELSE Converted(Fin(sgn * Units(mant, ScaleDigits - nFrac + ex)))

\* the exponent, if s[d] is 'e' and digits follow from e1 on
StodExp(s, sgn, mant, nFrac, d, e1) ==
    IF d <= Len(s) /\ s[d] \in {"e", "E"} /\ DigitsEnd(s, e1) > e1
    THEN StodValue(sgn, mant, nFrac,
                   (IF s[d + 1] = "-" THEN -1 ELSE 1) * DigitsValue(s, e1, DigitsEnd(s, e1)))
    ELSE StodValue(sgn, mant, nFrac, 0)

ExpStart(s, d) ==
    IF d + 1 <= Len(s) /\ s[d + 1] \in {"+", "-"} THEN d + 2 ELSE d + 1

FracLen(c, d) == IF d > c THEN d - c - 1 ELSE 0

\* integer digits s[b .. c-1]; with a '.' at c the fraction is s[c+1 .. d-1],
\* without one d = c
StodFrac(s, sgn, b, c, d) ==
    IF (c - b) + FracLen(c, d) = 0 THEN Threw("invalid_argument")
    ELSE StodExp(s, sgn,
                 DigitsValue(s, b, c) * (10 ^ FracLen(c, d)) + DigitsValue(s, c + 1, d),
                 FracLen(c, d), d, ExpStart(s, d))

StodDot(s, sgn, b, c) ==
    StodFrac(s, sgn, b, c, IF c <= Len(s) /\ s[c] = "." THEN DigitsEnd(s, c + 1) ELSE c)

Word3(s, b) ==
    IF b + 2 <= Len(s) THEN <<Lower(s[b]), Lower(s[b + 1]), Lower(s[b + 2])>> ELSE <<>>

StodNumber(s, sgn, b) ==
    IF Word3(s, b) = <<"i", "n", "f">> THEN Converted(Inf(sgn))
    ELSE IF Word3(s, b) = <<"n", "a", "n">> THEN Converted(NaN)
    ELSE StodDot(s, sgn, b, DigitsEnd(s, b))

StodSign(s, a) ==
    StodNumber(s,
               IF a <= Len(s) /\ s[a] = "-" THEN -1 ELSE 1,
               IF a <= Len(s) /\ s[a] \in {"+", "-"} THEN a + 1 ELSE a)

Stod(s) == StodSign(s, SkipSpace(s, 1))

\* the first position from p on that holds the character c, or Len(s) + 1
FirstAt(s, p, c) ==
    LET D == {q \in p..Len(s) : s[q] = c}
    IN  IF D = {} THEN Len(s) + 1 ELSE CHOOSE q \in D : \A r \in D : q <= r

\* boost::split(record, row, is_any_of("|")): every '|' ends a field, empty
\* fields are kept, and a row without '|' is one field.  q is the next '|'.
RECURSIVE SplitFrom(_, _, _)
SplitFrom(s, p, q) ==
    IF q > Len(s) THEN <<SubSeq(s, p, Len(s))>>
    ELSE <<SubSeq(s, p, q - 1)>> \o SplitFrom(s, q + 1, FirstAt(s, q + 1, "|"))

Split(row) == SplitFrom(row, 1, FirstAt(row, 1, "|"))

\* for (std::string line; std::getline(file, line);) rows.emplace_back(line):
\* a line ends at '\n' (dropped) or at the end of the file; getline fails, and
\* the loop ends, when no character is left.  q is the next '\n'.
RECURSIVE GetLinesFrom(_, _, _)
GetLinesFrom(s, p, q) ==
    IF p > Len(s) THEN <<>>
    ELSE IF q > Len(s) THEN <<SubSeq(s, p, Len(s))>>
    ELSE <<SubSeq(s, p, q - 1)>> \o GetLinesFrom(s, q + 1, FirstAt(s, q + 1, "\n"))

GetLines(text) == GetLinesFrom(text, 1, FirstAt(text, 1, "\n"))

-----------------------------------------------------------------------------
(* parse_field, parse_magnitude, parse_star_record *)

COL_BT  == 17
COL_VT  == 19
COL_RA  == 24
COL_DEC == 25

NoValue == [k |-> "none", v |-> 0]

Star(ra_deg, de_deg, mag) == [ra_deg |-> ra_deg, de_deg |-> de_deg, mag |-> mag]

\* an empty std::optional, and one that holds a value; em is the caller's
\* errmes after the call
Nothing(em) == [has |-> FALSE, value |-> NoValue, errmes |-> em]
Some(x, em) == [has |-> TRUE, value |-> x, errmes |-> em]

MissingFieldMes(field_name) == <<"Missing field: ", field_name>>
FailedToParseMes(field_name, what) == <<"Failed to parse ", field_name, ". (", what, ")">>

\* what value = std::stod(record.at(index)) throws: vector::at throws
\* std::out_of_range for an index past the end, and stod throws as Stod says
parse_field_thrown(rec, index) ==
    IF index >= Len(rec) THEN "out_of_range" ELSE Stod(rec[index + 1]).exc

parse_field(rec, index, field_name, em) ==
    IF parse_field_thrown(rec, index) = "out_of_range"
    THEN Nothing(MissingFieldMes(field_name))
    ELSE IF parse_field_thrown(rec, index) = "invalid_argument"
    THEN Nothing(FailedToParseMes(field_name, "stod"))
    ELSE Some(Stod(rec[index + 1]).val, em)

\* magnitude_of with the two bands taking each other's place in the blend
magnitude_of_swapped(bt_mag, vt_mag, em) ==
    IF bt_mag.has
    THEN IF vt_mag.has
         THEN Some(FSub(bt_mag.value, FMulBlend(FSub(vt_mag.value, bt_mag.value))), em)
         ELSE Some(bt_mag.value, em)
    ELSE IF vt_mag.has
         THEN Some(vt_mag.value, em)
         ELSE Nothing(<<"Missing magnitude. ">> \o bt_mag.errmes \o <<". ">> \o vt_mag.errmes)

\* the branches of parse_magnitude on its two optionals
magnitude_of(bt_mag, vt_mag, em) ==
    IF bt_mag.has
    THEN IF vt_mag.has
         THEN Some(FSub(vt_mag.value, FMulBlend(FSub(bt_mag.value, vt_mag.value))), em)
         ELSE Some(bt_mag.value, em)
    ELSE IF vt_mag.has
         THEN Some(vt_mag.value, em)
         ELSE Nothing(<<"Missing magnitude. ">> \o bt_mag.errmes \o <<". ">> \o vt_mag.errmes)

parse_magnitude(rec, em) ==
    magnitude_of(parse_field(rec, COL_BT, "BT magnitude", <<>>),
                 parse_field(rec, COL_VT, "VT magnitude", <<>>),
                 em)

\* parse_star_record, one operator per step: each returns early on an empty
\* optional and hands the caller's errmes on to the next step
star_after_mag(ra, dec, mag) ==
    IF ~mag.has THEN Nothing(mag.errmes)
    ELSE Some(Star(ra.value, dec.value, mag.value), mag.errmes)

star_after_dec(rec, ra, dec) ==
    IF ~dec.has THEN Nothing(dec.errmes)
    ELSE star_after_mag(ra, dec, parse_magnitude(rec, dec.errmes))

star_after_ra(rec, ra) ==
    IF ~ra.has THEN Nothing(ra.errmes)
    ELSE star_after_dec(rec, ra, parse_field(rec, COL_DEC, "Dec", ra.errmes))

\* parse_star_record reading Dec before RA
parse_star_record_dec_first(rec, em) ==
    IF ~parse_field(rec, COL_DEC, "Dec", em).has
    THEN Nothing(parse_field(rec, COL_DEC, "Dec", em).errmes)
    ELSE star_after_ra(rec, parse_field(rec, COL_RA, "RA", em))

parse_star_record(rec, em) ==
    star_after_ra(rec, parse_field(rec, COL_RA, "RA", em))

-----------------------------------------------------------------------------
(* Sample inputs *)

T_45    == <<"4", ".", "5">>
T_pad   == <<" ", "1", "0", ".", "0">>
T_neg   == <<"-", "2", "0", ".", "5", "x">>
T_blank == <<" ", " ">>
T_junk  == <<"x", "1">>
T_huge  == <<"1", "e", "9", "9", "9">>
T_nan   == <<"n", "a", "n">>
T_inf   == <<"-", "I", "n", "f">>
T_fill  == <<"1">>

FieldTexts == {T_45, T_pad, T_neg, T_blank, T_junk, T_huge, T_nan, T_inf}

\* a record of n fields: the four catalog columns hold the given texts, every
\* other column a filler
MkRecord(n, bt, vt, ra, dec) ==
    [j \in 1..n |->
        IF j = COL_BT + 1 THEN bt
        ELSE IF j = COL_VT + 1 THEN vt
        ELSE IF j = COL_RA + 1 THEN ra
        ELSE IF j = COL_DEC + 1 THEN dec
        ELSE T_fill]

MaxFields == 27
RecordLens == {0, COL_BT, COL_BT + 1, COL_VT + 1, COL_RA, COL_RA + 1, COL_DEC + 1, MaxFields}

Fields == {<<COL_BT, "BT magnitude">>, <<COL_VT, "VT magnitude">>,
           <<COL_RA, "RA">>, <<COL_DEC, "Dec">>}

-----------------------------------------------------------------------------
(* The state of a component that is not running *)

NoCall == [fn |-> "none", index |-> 0, field_name |-> "", errmes_in |-> <<>>]
NoRet  == [has |-> FALSE, value |-> NoValue]
NoWindow == [min_ra |-> 0, max_ra |-> 0, min_dec |-> 0, max_dec |-> 0, max_magnitude |-> 0]
NoGeom == [width |-> 0, height |-> 0, min_ra |-> 0, max_ra |-> 0, min_dec |-> 0, max_dec |-> 0]

IdleParse ==
    /\ record = <<>> /\ errmes = <<>> /\ op = NoCall /\ ret = NoRet

IdleRead ==
    /\ path_ok = FALSE /\ file = <<>> /\ pc = "idle" /\ rows = <<>> /\ records = <<>>
    /\ writes = <<>> /\ stars = <<>> /\ i = 0 /\ skipped_rows = 0 /\ cerr = <<>>
    /\ thrown = "none"

IdleFilter ==
    /\ all_stars = <<>> /\ window = NoWindow /\ tested = <<>> /\ local = <<>>
    /\ filtered_stars = <<>> /\ finish = 0 /\ fpc = "idle"

IdleRender ==
    /\ rstars = <<>> /\ geom = NoGeom /\ k = 0 /\ img = <<>> /\ drawn = <<>> /\ rpc = "idle"

-----------------------------------------------------------------------------
(* A caller of the three parse functions: one call on one record, with the  *)
(* caller's errmes holding either nothing or an older message               *)

StaleMes == <<"stale">>

InitParse ==
    /\ \E n \in RecordLens, bt \in FieldTexts, vt \in FieldTexts,
          ra \in FieldTexts, dec \in FieldTexts :
            record = MkRecord(n, bt, vt, ra, dec)
    /\ errmes \in {<<>>, StaleMes}
    /\ op = NoCall
    /\ ret = NoRet
    /\ IdleRead /\ IdleFilter /\ IdleRender

Returned(fn, index, field_name, r) ==
    /\ op' = [fn |-> fn, index |-> index, field_name |-> field_name, errmes_in |-> errmes]
    /\ ret' = [has |-> r.has, value |-> r.value]
    /\ errmes' = r.errmes
    /\ UNCHANGED <<record, readVars, filterVars, renderVars>>

CallParseField ==
    /\ op.fn = "none"
    /\ \E f \in Fields :
         Returned("parse_field", f[1], f[2], parse_field(record, f[1], f[2], errmes))

CallParseMagnitude ==
    /\ op.fn = "none"
    /\ Returned("parse_magnitude", 0, "", parse_magnitude(record, errmes))

CallParseStarRecord ==
    /\ op.fn = "none"
    /\ Returned("parse_star_record", 0, "", parse_star_record(record, errmes))

NextParse == CallParseField \/ CallParseMagnitude \/ CallParseStarRecord

SpecParse == InitParse /\ [][NextParse]_vars

-----------------------------------------------------------------------------
(* read_stars *)

RECURSIVE JoinFields(_)
JoinFields(rec) ==
    IF Len(rec) = 0 THEN <<>>
    ELSE IF Len(rec) = 1 THEN rec[1]
    ELSE rec[1] \o <<"|">> \o JoinFields(Tail(rec))

\* catalog lines: two that parse, and lines that are short, unparseable, not
\* finite, or empty
L_both  == JoinFields(MkRecord(COL_DEC + 1, T_45, T_pad, T_pad, T_neg))
L_junk  == JoinFields(MkRecord(COL_DEC + 1, T_45, T_45, T_junk, T_pad))
L_nan   == JoinFields(MkRecord(COL_DEC + 1, T_45, T_blank, T_nan, T_inf))
L_empty == <<>>

SampleLines == {L_both, L_junk, L_nan, L_empty}

\* the text of a file with these lines; the last line ends with '\n' or not
RECURSIVE FileText(_, _)
FileText(lines, nl) ==
    IF Len(lines) = 0 THEN <<>>
    ELSE IF Len(lines) = 1 THEN (IF nl THEN lines[1] \o <<"\n">> ELSE lines[1])
    ELSE lines[1] \o <<"\n">> \o FileText(Tail(lines), nl)

MaxLines == 3

InitRead ==
    /\ path_ok \in BOOLEAN
    /\ IF path_ok
       THEN \E n \in 0..MaxLines : \E ls \in [1..n -> SampleLines], nl \in BOOLEAN :
                file = FileText(ls, nl)
       ELSE file = <<>>
    /\ pc = "open"
    /\ rows = <<>> /\ records = <<>> /\ writes = <<>> /\ stars = <<>>
    /\ i = 0 /\ skipped_rows = 0 /\ cerr = <<>> /\ thrown = "none"
    /\ IdleParse /\ IdleFilter /\ IdleRender

\* std::ifstream file(path); seekg(0, end); rows.reserve(file.tellg()); seekg(0).
\* A stream that failed to open ignores seekg, tellg() returns pos_type(-1), and
\* reserve(size_type(-1)) throws std::length_error; nothing catches it.
OpenFile ==
    /\ pc = "open"
    /\ IF path_ok
       THEN pc' = "getline" /\ thrown' = thrown
       ELSE pc' = "threw" /\ thrown' = "length_error"
    /\ UNCHANGED <<path_ok, file, rows, records, writes, stars, i, skipped_rows, cerr>>
    /\ UNCHANGED <<parseVars, filterVars, renderVars>>

\* the getline loop, then records.resize(rows.size())
ReadRows ==
    /\ pc = "getline"
    /\ rows' = GetLines(file)
    /\ records' = [j \in 1..Len(GetLines(file)) |-> <<>>]
    /\ pc' = "split"
    /\ UNCHANGED <<path_ok, file, writes, stars, i, skipped_rows, cerr, thrown>>
    /\ UNCHANGED <<parseVars, filterVars, renderVars>>

\* a variant that appends each result as it completes
OutputSlotInOrderOfCompletion(j) == Len(writes) + 1

\* std::transform(par_unseq, ..., records.begin(), ...) writes the result for
\* rows[j] through records.begin() + j
OutputSlot(j) == j

\* one element of the parallel transform: any row not yet transformed, in any
\* order; writes logs <<row, slot>> in the order of completion
SplitRow ==
    /\ pc = "split"
    /\ \E j \in 1..Len(rows) :
         /\ \A w \in 1..Len(writes) : writes[w][1] # j
         /\ records' = [records EXCEPT ![OutputSlot(j)] = Split(rows[j])]
         /\ writes' = Append(writes, <<j, OutputSlot(j)>>)
    /\ UNCHANGED <<path_ok, file, pc, rows, stars, i, skipped_rows, cerr, thrown>>
    /\ UNCHANGED <<parseVars, filterVars, renderVars>>

\* the transform returns when every element is done
SplitDone ==
    /\ pc = "split"
    /\ Len(writes) = Len(rows)
    /\ pc' = "parse"
    /\ i' = 0
    /\ UNCHANGED <<path_ok, file, rows, records, writes, stars, skipped_rows, cerr, thrown>>
    /\ UNCHANGED <<parseVars, filterVars, renderVars>>

\* parsing.cpp: one iteration of for (const auto& record : records)
ParsedStars(star) == IF star.has THEN Append(stars, star.value) ELSE stars

ParseRecord ==
    /\ pc = "parse"
    /\ i < Len(records)
    /\ stars' = ParsedStars(parse_star_record(records[i + 1], <<>>))
    /\ i' = i + 1
    /\ UNCHANGED <<path_ok, file, pc, rows, records, writes, skipped_rows, cerr, thrown>>
    /\ UNCHANGED <<parseVars, filterVars, renderVars>>

ReturnStars ==
    /\ pc = "parse"
    /\ i = Len(records)
    /\ pc' = "done"
    /\ UNCHANGED <<path_ok, file, rows, records, writes, stars, i, skipped_rows, cerr, thrown>>
    /\ UNCHANGED <<parseVars, filterVars, renderVars>>

NextRead == OpenFile \/ ReadRows \/ SplitRow \/ SplitDone \/ ParseRecord \/ ReturnStars

SpecRead == InitRead /\ [][NextRead]_vars

-----------------------------------------------------------------------------
(* render.cpp: the read loop with its diagnostics *)

REPORT_LIMIT == 10
NOTICE_AT == 11

SkipReport(row, mes) == [kind |-> "Skipping row", row |-> row, errmes |-> mes]
FurtherNotice == [kind |-> "Further skipped rows will not be printed...", row |-> 0, errmes |-> <<>>]

D_good == L_both
D_bad  == <<"x", "|", "y">>
DiagLines == {D_good, D_bad}
MaxDiagLines == 13
MaxAccepted == 2

\* the state at "std::size_t i = 0": the rows read and every row split; the
\* file has MaxDiagLines lines, at most MaxAccepted of them parse, at any place
InitDiag ==
    /\ \E ls \in [1..MaxDiagLines -> DiagLines] :
         /\ Cardinality({j \in 1..MaxDiagLines : ls[j] = D_good}) <= MaxAccepted
         /\ file = FileText(ls, TRUE)
         /\ rows = ls
         /\ records = [j \in 1..MaxDiagLines |-> Split(ls[j])]
    /\ writes = [j \in 1..MaxDiagLines |-> <<j, j>>]
    /\ path_ok = TRUE
    /\ pc = "diag"
    /\ stars = <<>> /\ i = 0 /\ skipped_rows = 0 /\ cerr = <<>> /\ thrown = "none"
    /\ IdleParse /\ IdleFilter /\ IdleRender

\* a variant that prints i instead of (i-1)
ReportedOneBased(i_now, skipped_now, mes) ==
    IF skipped_now <= REPORT_LIMIT THEN Append(cerr, SkipReport(i_now, mes))
    ELSE IF skipped_now = NOTICE_AT THEN Append(cerr, FurtherNotice)
    ELSE cerr

\* what the iteration writes to std::cerr for a rejected row; i and
\* skipped_rows are the counters after their increments
Reported(i_now, skipped_now, mes) ==
    IF skipped_now <= REPORT_LIMIT THEN Append(cerr, SkipReport(i_now - 1, mes))
    ELSE IF skipped_now = NOTICE_AT THEN Append(cerr, FurtherNotice)
    ELSE cerr

DiagStep(star) ==
    IF ~star.has
    THEN /\ skipped_rows' = skipped_rows + 1
         /\ cerr' = Reported(i + 1, skipped_rows + 1, star.errmes)
         /\ stars' = stars
    ELSE /\ stars' = Append(stars, star.value)
         /\ UNCHANGED <<skipped_rows, cerr>>

ParseRecordDiag ==
    /\ pc = "diag"
    /\ i < Len(records)
    /\ i' = i + 1
    /\ DiagStep(parse_star_record(records[i + 1], <<>>))
    /\ UNCHANGED <<path_ok, file, pc, rows, records, writes, thrown>>
    /\ UNCHANGED <<parseVars, filterVars, renderVars>>

ReturnStarsDiag ==
    /\ pc = "diag"
    /\ i = Len(records)
    /\ pc' = "done"
    /\ UNCHANGED <<path_ok, file, rows, records, writes, stars, i, skipped_rows, cerr, thrown>>
    /\ UNCHANGED <<parseVars, filterVars, renderVars>>

NextDiag == ParseRecordDiag \/ ReturnStarsDiag

SpecDiag == InitDiag /\ [][NextDiag]_vars

-----------------------------------------------------------------------------
(* filter_stars *)

\* a <= b on doubles: false when either is NaN
FLeq(a, b) ==
    CASE a.k = "nan" \/ b.k = "nan" -> FALSE
      [] a.k = "inf" -> a.v = -1 \/ (b.k = "inf" /\ b.v = 1)
      [] b.k = "inf" -> b.v = 1
      [] OTHER -> a.v <= b.v

\* n thousandths
Milli(n) == Fin(n * (10 ^ (ScaleDigits - 3)))
Deg(n) == Milli(1000 * n)

\* the lambda of filter_stars
InWindow(star, w) ==
    /\ FLeq(w.min_ra, star.ra_deg) /\ FLeq(star.ra_deg, w.max_ra)
    /\ FLeq(w.min_dec, star.de_deg) /\ FLeq(star.de_deg, w.max_dec)
    /\ FLeq(star.mag, w.max_magnitude)

DefaultWindow ==
    [min_ra |-> Deg(0), max_ra |-> Deg(360), min_dec |-> Deg(-90), max_dec |-> Deg(90),
     max_magnitude |-> Deg(6)]

F_3    == Star(Deg(10), Deg(20), Milli(3000))
F_7    == Star(Deg(10), Deg(20), Milli(7000))
F_6    == Star(Deg(360), Deg(-90), Milli(6000))
F_5999 == Star(Deg(0), Deg(90), Milli(5999))
F_nan  == Star(NaN, Deg(20), Inf(-1))
FilterStars == {F_3, F_7, F_6, F_5999, F_nan}

MaxFilterStars == 4

InitFilter ==
    /\ \E n \in 0..MaxFilterStars : \E ss \in [1..n -> FilterStars] :
         /\ all_stars = ss
         /\ tested = [j \in 1..n |-> "todo"]
         /\ local = [j \in 1..n |-> 0]
         /\ filtered_stars = [j \in 1..n |-> Star(NaN, NaN, NaN)]
    /\ window = DefaultWindow
    /\ finish = 0
    /\ fpc = "copy_if"
    /\ IdleParse /\ IdleRead /\ IdleRender

\* std::copy_if(std::execution::par, ...): the predicate on one element, by
\* any thread, in any order
TestStar ==
    /\ fpc = "copy_if"
    /\ \E j \in 1..Len(all_stars) :
         /\ tested[j] = "todo"
         /\ tested' = [tested EXCEPT ![j] = IF InWindow(all_stars[j], window) THEN "keep" ELSE "drop"]
    /\ UNCHANGED <<all_stars, window, local, filtered_stars, finish, fpc>>
    /\ UNCHANGED <<parseVars, readVars, renderVars>>

\* *result++ = star through std::back_inserter is filtered_stars.push_back(star);
\* nothing orders the push_backs of two threads.  Its first half reads the end
\* of the vector ...
ReadFinish ==
    /\ fpc = "copy_if"
    /\ \E j \in 1..Len(all_stars) :
         /\ tested[j] = "keep"
         /\ local' = [local EXCEPT ![j] = finish]
         /\ tested' = [tested EXCEPT ![j] = "read"]
    /\ UNCHANGED <<all_stars, window, filtered_stars, finish, fpc>>
    /\ UNCHANGED <<parseVars, readVars, renderVars>>

\* ... and its second half constructs the star there and stores the new end
\* (the reserve() before the copy rules a reallocation out)
StoreStar ==
    /\ fpc = "copy_if"
    /\ \E j \in 1..Len(all_stars) :
         /\ tested[j] = "read"
         /\ filtered_stars' = [filtered_stars EXCEPT ![local[j] + 1] = all_stars[j]]
         /\ finish' = local[j] + 1
         /\ tested' = [tested EXCEPT ![j] = "stored"]
    /\ UNCHANGED <<all_stars, window, local, fpc>>
    /\ UNCHANGED <<parseVars, readVars, renderVars>>

\* copy_if returns when every element is done; shrink_to_fit; return
FilterReturn ==
    /\ fpc = "copy_if"
    /\ \A j \in 1..Len(all_stars) : tested[j] \in {"drop", "stored"}
    /\ filtered_stars' = SubSeq(filtered_stars, 1, finish)
    /\ fpc' = "done"
    /\ UNCHANGED <<all_stars, window, tested, local, finish>>
    /\ UNCHANGED <<parseVars, readVars, renderVars>>

NextFilter == TestStar \/ ReadFinish \/ StoreStar \/ FilterReturn

SpecFilter == InitFilter /\ [][NextFilter]_vars

-----------------------------------------------------------------------------
(* render_stars *)

\* a / b on doubles, the quotient of two finite numbers kept as a fraction
Ratio(p, q) == [k |-> "ratio", p |-> p, q |-> q]
FDiv(a, b) ==
    CASE a.k = "nan" \/ b.k = "nan" -> [k |-> "nan"]
      [] a.k = "inf" /\ b.k = "inf" -> [k |-> "nan"]
      [] a.k = "inf" -> [k |-> "inf"]
      [] b.k = "inf" -> Ratio(0, 1)
      [] b.v = 0 /\ a.v = 0 -> [k |-> "nan"]
      [] b.v = 0 -> [k |-> "inf"]
      [] b.v < 0 -> Ratio(-a.v, -b.v)
      [] OTHER -> Ratio(a.v, b.v)

\* conversion of a non-negative double n/d to uint32_t
Trunc(n, d) == IF n >= 0 THEN n \div d ELSE -((-n) \div d)

\* std::minmax_element over a.mag < b.mag
MinMag(ss) == CHOOSE m \in {ss[p].mag : p \in 1..Len(ss)} : \A p \in 1..Len(ss) : FLeq(m, ss[p].mag)
MaxMag(ss) == CHOOSE m \in {ss[p].mag : p \in 1..Len(ss)} : \A p \in 1..Len(ss) : FLeq(ss[p].mag, m)

PixelX(star, g) == Trunc((star.ra_deg.v - g.min_ra.v) * g.width, g.max_ra.v - g.min_ra.v)
PixelY(star, g) == Trunc((star.de_deg.v - g.min_dec.v) * g.height, g.max_dec.v - g.min_dec.v)

\* a variant with the closed test x <= width && y <= height
InBoundsClosed(x, y, g) == x <= g.width /\ y <= g.height

\* if (x < width && y < height)
InBounds(x, y, g) == x < g.width /\ y < g.height

Normalized(star, ss) == FDiv(FSub(MaxMag(ss), star.mag), FSub(MaxMag(ss), MinMag(ss)))

UINT8_MAX == 255
\* the byte floor(255 * (p/q)^2.5) for 0 <= p/q <= 1
PowByte(p, q) ==
    CHOOSE b \in 0..UINT8_MAX :
        /\ b * b * q * q * q * q * q <= UINT8_MAX * UINT8_MAX * p * p * p * p * p
        /\ UINT8_MAX * UINT8_MAX * p * p * p * p * p < (b + 1) * (b + 1) * q * q * q * q * q

RECURSIVE GCD(_, _)
GCD(a, b) == IF b = 0 THEN a ELSE GCD(b, a % b)

\* a double that is NaN, infinite or outside 0..255 converted to uint8_t is
\* undefined: any byte; these stand for all of them
UndefinedBytes == {0, 128, UINT8_MAX}

\* const uint8_t brightness = std::pow(normalized_mag, 2.5) * 255
Brightness(n) ==
    IF n.k = "ratio" /\ 0 <= n.p /\ n.p <= n.q
    THEN {PowByte(n.p \div GCD(n.p, n.q), n.q \div GCD(n.p, n.q))}
    ELSE UndefinedBytes

Geom(w, h, ra0, ra1, dec0, dec1) ==
    [width |-> w, height |-> h, min_ra |-> Deg(ra0), max_ra |-> Deg(ra1),
     min_dec |-> Deg(dec0), max_dec |-> Deg(dec1)]
Geoms == {Geom(2, 2, 0, 360, -90, 90), Geom(3, 2, 0, 270, -90, 90)}

R_origin == Star(Deg(0), Deg(-90), Milli(3000))
R_maxra  == Star(Deg(270), Deg(0), Milli(5000))
R_mid    == Star(Deg(180), Deg(0), Milli(5000))
R_mid2   == Star(Deg(180), Deg(0), Milli(3000))
R_maxdec == Star(Deg(100), Deg(90), Milli(6000))
R_near   == Star(Deg(45), Deg(-45), Milli(6000))
R_ninf   == Star(Deg(90), Deg(-45), Inf(-1))
RenderStars == {R_origin, R_maxra, R_mid, R_mid2, R_maxdec, R_near, R_ninf}

MaxRenderStars == 3

\* the stars main() passes are those filter_stars kept for the same window
InitRender ==
    /\ geom \in Geoms
    /\ \E n \in 0..MaxRenderStars : rstars \in [1..n -> RenderStars]
    /\ \A p \in 1..Len(rstars) :
         /\ FLeq(geom.min_ra, rstars[p].ra_deg) /\ FLeq(rstars[p].ra_deg, geom.max_ra)
         /\ FLeq(geom.min_dec, rstars[p].de_deg) /\ FLeq(rstars[p].de_deg, geom.max_dec)
    /\ k = 0
    /\ img = <<>>
    /\ drawn = <<>>
    /\ rpc = "create"
    /\ IdleParse /\ IdleRead /\ IdleFilter

\* dst.create(height, width, CV_8UC1); img.setTo(0); return on no stars
CreateImage ==
    /\ rpc = "create"
    /\ img' = [y \in 1..geom.height |-> [x \in 1..geom.width |-> 0]]
    /\ rpc' = IF Len(rstars) = 0 THEN "done" ELSE "loop"
    /\ UNCHANGED <<rstars, geom, k, drawn>>
    /\ UNCHANGED <<parseVars, readVars, filterVars>>

\* cv::circle of radius 0 at (x, y): the one pixel
Plot(n, x, y, b) ==
    /\ img' = [img EXCEPT ![y + 1][x + 1] = b]
    /\ drawn' = Append(drawn, [star |-> n, x |-> x, y |-> y, b |-> b])

DrawAt(n, x, y) ==
    IF InBounds(x, y, geom)
    THEN \E b \in Brightness(Normalized(rstars[n], rstars)) : Plot(n, x, y, b)
    ELSE UNCHANGED <<img, drawn>>

\* one pass of for (const Star& star : stars)
DrawStar ==
    /\ rpc = "loop"
    /\ k < Len(rstars)
    /\ DrawAt(k + 1, PixelX(rstars[k + 1], geom), PixelY(rstars[k + 1], geom))
    /\ k' = k + 1
    /\ UNCHANGED <<rstars, geom, rpc>>
    /\ UNCHANGED <<parseVars, readVars, filterVars>>

RenderReturn ==
    /\ rpc = "loop"
    /\ k = Len(rstars)
    /\ rpc' = "done"
    /\ UNCHANGED <<rstars, geom, k, img, drawn>>
    /\ UNCHANGED <<parseVars, readVars, filterVars>>

NextRender == CreateImage \/ DrawStar \/ RenderReturn

SpecRender == InitRender /\ [][NextRender]_vars

-----------------------------------------------------------------------------
(* Properties of the parse functions *)

\* column index of rec holds text that std::stod converts
FieldParses(rec, index) == index < Len(rec) /\ Stod(rec[index + 1]).exc = "none"
FieldValue(rec, index) == Stod(rec[index + 1]).val

IsInfix(sub, s) ==
    \E p \in 0..(Len(s) - Len(sub)) : SubSeq(s, p + 1, p + Len(sub)) = sub

\* vt - 0.090 * (bt - vt), bt alone, or vt alone
ExpectedMag(rec) ==
    IF FieldParses(rec, COL_BT) /\ FieldParses(rec, COL_VT)
    THEN FSub(FieldValue(rec, COL_VT),
              FMulBlend(FSub(FieldValue(rec, COL_BT), FieldValue(rec, COL_VT))))
    ELSE IF FieldParses(rec, COL_BT) THEN FieldValue(rec, COL_BT)
    ELSE FieldValue(rec, COL_VT)

\* C1: parse_magnitude's result depends only on whether columns 17 and 19
\* parse: both -> vt - 0.090*(bt - vt); only BT -> bt; only VT -> vt; neither
\* -> no value and a message that carries the failure of both fields.
C1_MagnitudeByBands ==
    op.fn = "parse_magnitude" =>
        IF FieldParses(record, COL_BT) \/ FieldParses(record, COL_VT)
        THEN ret = [has |-> TRUE, value |-> ExpectedMag(record)]
        ELSE /\ ~ret.has
             /\ IsInfix(parse_field(record, COL_BT, "BT magnitude", <<>>).errmes, errmes)
             /\ IsInfix(parse_field(record, COL_VT, "VT magnitude", <<>>).errmes, errmes)
             /\ \E p \in 1..Len(errmes) : errmes[p] = "BT magnitude"
             /\ \E p \in 1..Len(errmes) : errmes[p] = "VT magnitude"

\* both bands parse to different finite numbers and the blend is returned
C1_Witness ==
    /\ op.fn = "parse_magnitude"
    /\ FieldParses(record, COL_BT) /\ FieldParses(record, COL_VT)
    /\ IsFinite(FieldValue(record, COL_BT)) /\ IsFinite(FieldValue(record, COL_VT))
    /\ FieldValue(record, COL_BT) # FieldValue(record, COL_VT)
    /\ ret.has /\ ret.value # FieldValue(record, COL_VT)

\* C2: parse_star_record returns a Star exactly when RA, Dec and at least one
\* band parse, and then the Star is (ra, dec, synthesized mag) of the record;
\* a record of fewer than 25 fields is rejected; the reason reported is that
\* of the first failing step in the order RA, Dec, magnitude.
C2_StarExactlyWhenAllParse ==
    op.fn = "parse_star_record" =>
        /\ ret.has <=> /\ FieldParses(record, COL_RA)
                       /\ FieldParses(record, COL_DEC)
                       /\ (FieldParses(record, COL_BT) \/ FieldParses(record, COL_VT))
        /\ ret.has => ret.value = Star(FieldValue(record, COL_RA),
                                       FieldValue(record, COL_DEC),
                                       ExpectedMag(record))
        /\ Len(record) < COL_RA + 1 => ~ret.has
        /\ ~FieldParses(record, COL_RA) =>
              errmes = parse_field(record, COL_RA, "RA", op.errmes_in).errmes
        /\ FieldParses(record, COL_RA) /\ ~FieldParses(record, COL_DEC) =>
              errmes = parse_field(record, COL_DEC, "Dec", op.errmes_in).errmes
        /\ FieldParses(record, COL_RA) /\ FieldParses(record, COL_DEC) /\ ~ret.has =>
              /\ Len(errmes) > 0 /\ errmes[1] = "Missing magnitude. "

\* RA fails and Dec fails too: the reason reported is RA's
C2_Witness ==
    /\ op.fn = "parse_star_record"
    /\ Len(record) > COL_DEC
    /\ ~FieldParses(record, COL_RA) /\ ~FieldParses(record, COL_DEC)
    /\ ~ret.has
    /\ errmes = FailedToParseMes("RA", "stod")

\* C3: parse_field has three outcomes: index out of bounds -> no value and
\* "Missing field"; index in bounds and text that is no number in double range
\* -> no value and "Failed to parse", never "Missing field"; otherwise the
\* value, with errmes left as it was.
C3_ThreeOutcomes ==
    op.fn = "parse_field" =>
        IF op.index >= Len(record)
        THEN ~ret.has /\ errmes = MissingFieldMes(op.field_name)
        ELSE IF Stod(record[op.index + 1]).exc # "none"
        THEN /\ ~ret.has
             /\ Len(errmes) >= 2
             /\ errmes[1] = "Failed to parse " /\ errmes[2] = op.field_name
        ELSE /\ ret = [has |-> TRUE, value |-> Stod(record[op.index + 1]).val]
             /\ errmes = op.errmes_in

-----------------------------------------------------------------------------
(* Properties of read_stars *)

\* the stars of the first n rows whose record parses, in row order
RECURSIVE AcceptedStars(_, _)
AcceptedStars(rs, n) ==
    IF n = 0 THEN <<>>
    ELSE IF parse_star_record(Split(rs[n]), <<>>).has
    THEN Append(AcceptedStars(rs, n - 1), parse_star_record(Split(rs[n]), <<>>).value)
    ELSE AcceptedStars(rs, n - 1)

\* C4: whatever the order in which the parallel transform completes its
\* elements, each element is written to its own slot and no slot twice,
\* records[j] is the '|'-split of line j, and the stars returned are those of
\* the lines that parse, in line order; a rejected line aborts nothing.
C4_ReadIsDeterministic ==
    pc \in {"getline", "split", "parse", "done"} =>
        /\ thrown = "none"
        /\ \A w \in 1..Len(writes) : writes[w][2] = writes[w][1]
        /\ \A w, x \in 1..Len(writes) : writes[w][2] = writes[x][2] => w = x
        /\ pc \in {"parse", "done"} =>
              /\ rows = GetLines(file)
              /\ Len(writes) = Len(rows)
              /\ records = [j \in 1..Len(rows) |-> Split(rows[j])]
              /\ stars = AcceptedStars(rows, i)
        /\ pc = "done" => i = Len(rows)

\* three lines split last to first, the middle one rejected, two stars returned
C4_Witness ==
    /\ pc = "done"
    /\ Len(rows) = 3
    /\ writes[1][1] = 3 /\ writes[3][1] = 1
    /\ ~parse_star_record(Split(rows[2]), <<>>).has
    /\ Len(stars) = 2
    /\ stars[1] # stars[2]

\* C5: when the file cannot be opened, read_stars fails with an I/O error
\* before any splitting or parsing and returns no star list.
C5_OpenFailureIsIOError ==
    (pc \notin {"idle", "open"} /\ ~path_ok) =>
        /\ pc = "threw"
        /\ thrown = "ios_base::failure"
        /\ rows = <<>> /\ records = <<>> /\ writes = <<>> /\ stars = <<>>

\* C7: every Star returned by read_stars has finite ra, dec and mag.
C7_ReturnedStarsAreFinite ==
    pc = "done" =>
        \A p \in 1..Len(stars) :
            /\ IsFinite(stars[p].ra_deg)
            /\ IsFinite(stars[p].de_deg)
            /\ IsFinite(stars[p].mag)

\* what the loop has to show for the first n records: the rejected rows, each
\* with its 0-based index and its reason, and the stars of the accepted ones
LoopFold(prev, row, star) ==
    IF star.has
    THEN [rej |-> prev.rej, stars |-> Append(prev.stars, star.value)]
    ELSE [rej |-> Append(prev.rej, [row |-> row, errmes |-> star.errmes]), stars |-> prev.stars]

RECURSIVE LoopOutcome(_)
LoopOutcome(n) ==
    IF n = 0 THEN [rej |-> <<>>, stars |-> <<>>]
    ELSE LoopFold(LoopOutcome(n - 1), n - 1, parse_star_record(records[n], <<>>))

\* one report per rejected row for the first 10 of them, then one notice
ExpectedCerr(rej) ==
    [p \in 1..(IF Len(rej) > 11 THEN 11 ELSE Len(rej)) |->
        IF p <= 10 THEN SkipReport(rej[p].row, rej[p].errmes) ELSE FurtherNotice]

\* C10: in the diagnostic read loop each of the first 10 rejected rows gives
\* one report with its 0-based line index and its reason, the 11th gives one
\* suppression notice, later ones nothing; every rejected row is dropped and
\* the stars are those of the accepted rows (stars + rejected = lines read).
C10_DiagnosticsAreBounded ==
    pc \in {"diag", "done"} =>
        LET seen == LoopOutcome(i)
        IN  /\ cerr = ExpectedCerr(seen.rej)
            /\ skipped_rows = Len(seen.rej)
            /\ stars = seen.stars
            /\ Len(stars) + Len(seen.rej) = i
            /\ pc = "done" => i = Len(rows)

\* twelve rows rejected: ten reports, one notice, nothing for the twelfth
C10_Witness ==
    /\ pc = "done"
    /\ Len(stars) = 1
    /\ skipped_rows = 12
    /\ Len(cerr) = 11
    /\ cerr[1].row = 1
    /\ cerr[10].row = 10
    /\ cerr[11] = FurtherNotice

-----------------------------------------------------------------------------
(* Properties of filter_stars *)

Count(seq, x) == Cardinality({p \in 1..Len(seq) : seq[p] = x})

\* C6: whatever the interleaving of the parallel predicate evaluations and
\* appends, the result holds each input star with minRa <= ra <= maxRa,
\* minDec <= dec <= maxDec and mag <= maxMag as often as the input does, and
\* no other star: no append is lost, duplicated or torn.
C6_FilterKeepsExactlyTheWindow ==
    fpc = "done" =>
        \A x \in FilterStars \cup {filtered_stars[p] : p \in 1..Len(filtered_stars)} :
            Count(filtered_stars, x) =
                IF /\ FLeq(window.min_ra, x.ra_deg) /\ FLeq(x.ra_deg, window.max_ra)
                   /\ FLeq(window.min_dec, x.de_deg) /\ FLeq(x.de_deg, window.max_dec)
                   /\ FLeq(x.mag, window.max_magnitude)
                THEN Count(all_stars, x)
                ELSE 0

-----------------------------------------------------------------------------
(* Properties of render_stars *)

AllSameMagnitude == \A p, q \in 1..Len(rstars) : rstars[p].mag = rstars[q].mag

\* C8: a non-empty list whose stars all have one magnitude is drawn with
\* intensity 255 at every star that maps into the image.
C8_EqualMagnitudesAreFullyBright ==
    (rpc = "done" /\ Len(rstars) > 0 /\ AllSameMagnitude) =>
        /\ \A e \in 1..Len(drawn) : drawn[e].b = UINT8_MAX
        /\ \A p \in 1..Len(rstars) :
             LET x == ((rstars[p].ra_deg.v - geom.min_ra.v) * geom.width) \div (geom.max_ra.v - geom.min_ra.v)
                 y == ((rstars[p].de_deg.v - geom.min_dec.v) * geom.height) \div (geom.max_dec.v - geom.min_dec.v)
             IN  (x < geom.width /\ y < geom.height) => img[y + 1][x + 1] = UINT8_MAX

FloorX(p) == ((rstars[p].ra_deg.v - geom.min_ra.v) * geom.width) \div (geom.max_ra.v - geom.min_ra.v)
FloorY(p) == ((rstars[p].de_deg.v - geom.min_dec.v) * geom.height) \div (geom.max_dec.v - geom.min_dec.v)

\* the stars among the first n that fall into a pixel, with the pixel
ExpectedHits(n) ==
    LET hit == {p \in 1..n : FloorX(p) < geom.width /\ FloorY(p) < geom.height}
        nth(j) == CHOOSE p \in hit : Cardinality({q \in hit : q < p}) = j - 1
    IN  [j \in 1..Cardinality(hit) |-> [star |-> nth(j), x |-> FloorX(nth(j)), y |-> FloorY(nth(j))]]

LastAt(x, y) ==
    LET at == {e \in 1..Len(drawn) : drawn[e].x = x /\ drawn[e].y = y}
    IN  IF at = {} THEN 0 ELSE drawn[CHOOSE e \in at : \A f \in at : f <= e].b

\* C9: the image is height x width and starts all zero; the stars written are
\* exactly those whose floor((ra-minRa)/(maxRa-minRa)*width) < width and
\* floor((dec-minDec)/(maxDec-minDec)*height) < height, each at that pixel, so
\* no write is outside the image; a star at (minRa, minDec) goes to (0,0), one
\* at maxRa or maxDec is dropped; every pixel holds the intensity of the last
\* star in list order written to it, and 0 when none was (an empty list leaves
\* all zeros).
C9_HalfOpenBinningLastWriteWins ==
    rpc \in {"loop", "done"} =>
        /\ Len(img) = geom.height
        /\ \A y \in 1..geom.height : Len(img[y]) = geom.width
        /\ [e \in 1..Len(drawn) |-> [star |-> drawn[e].star, x |-> drawn[e].x, y |-> drawn[e].y]]
             = ExpectedHits(k)
        /\ \A e \in 1..Len(drawn) :
             /\ drawn[e].x \in 0..(geom.width - 1) /\ drawn[e].y \in 0..(geom.height - 1)
             /\ (rstars[drawn[e].star].ra_deg = geom.min_ra /\ rstars[drawn[e].star].de_deg = geom.min_dec)
                    => (drawn[e].x = 0 /\ drawn[e].y = 0)
             /\ rstars[drawn[e].star].ra_deg # geom.max_ra
             /\ rstars[drawn[e].star].de_deg # geom.max_dec
        /\ \A y \in 0..(geom.height - 1) : \A x \in 0..(geom.width - 1) :
             img[y + 1][x + 1] = LastAt(x, y)
        /\ (rpc = "done") => (k = Len(rstars))

\* a star off (minRa, minDec) and then a star at (minRa, minDec) fell into
\* pixel (0,0) with different intensities, the pixel holds the second one's,
\* and a third star at maxRa was dropped
C9_Witness ==
    /\ rpc = "done" /\ Len(rstars) = 3 /\ Len(drawn) = 2
    /\ rstars[2].ra_deg = geom.min_ra /\ rstars[2].de_deg = geom.min_dec
    /\ rstars[1].ra_deg # geom.min_ra
    /\ drawn[1].x = 0 /\ drawn[1].y = 0 /\ drawn[2].x = 0 /\ drawn[2].y = 0
    /\ drawn[1].b # drawn[2].b
    /\ img[1][1] = drawn[2].b
    /\ rstars[3].ra_deg = geom.max_ra

=============================================================================
